---- MODULE Spec2Model ----
(***************************************************************************)
(* Model of the amuseing playback engine (src/src/playback.rs) and of its  *)
(* queue (src/src/queue.rs).                                               *)
(*                                                                         *)
(* Spec      : the control plane.  One Player facade (the UI thread), the  *)
(*             decoder thread spawned by Player::run, the command channel, *)
(*             the shared PlayerState, the shared Queue and time_playing.  *)
(*             The output device does not fail and the Ring always has     *)
(*             room for the packet the decoder reads.                      *)
(* FairSpec  : Spec started on a two-song queue, with weak fairness of the *)
(*             decoder thread.                                             *)
(* SpecDevice: Spec with stream errors raised by the output device.        *)
(* SpecQueue : a Queue<T> on its own, under every call of its interface.   *)
(* SpecPlayerQueue: the Queue<T> of src/src/player.rs on its own, under    *)
(*             next, peek, skip, jump and changes of repeat_mode.          *)
(* SpecFrames: the decoder's 'song_loop with numbered frames: gate, flush,  *)
(*             decode-push one try_push at a time, a consumer that pops,   *)
(*             pause and resume, Stop and the stream rebuild.              *)
(* SpecAudio : the data plane.  The decoder's song start and decode-push,   *)
(*             the SampleRatePort, the Ring and the audio callback.        *)
(***************************************************************************)
EXTENDS Integers, Naturals, Sequences, FiniteSets, TLC

\* ------------------------------------------------------------------ bounds
MaxItems == 2        \* longest queue the UI builds before run()
MaxChan == 2         \* most commands the UI leaves undelivered in the channel
MaxAudioSongs == 2   \* songs played in SpecAudio
RingCap == 4         \* buffer_size: frames the Ring holds
PacketFrames == 3    \* frames one decoded packet holds
DataLen == 2         \* data.len(): samples the device asks for per callback
ChunkFrames == 2     \* resampler.input_frames_next(): frames per resampler chunk
MaxQLen == 3         \* longest queue of SpecQueue
MaxCalls == 7        \* next_item calls counted in one uninterrupted run
MaxStep == 2         \* largest n passed to skip and rewind
MaxSeekRounds == 2   \* times over a song is decoded when seeks take the reader back

\* --------------------------------------------------------------- constants
NoSong == 0                  \* Option::<Song>::None
RewindToleranceMs == 3000    \* REWIND_TOLERANCE = 3.0 s

\* play time of one packet, in milliseconds
PacketMs == 2 * 1000

\* song 1 is one packet long, song 2 three packets
Songs == {1, 2}
\* number of packets of a song's file
SongPackets(s) == IF s = 1 THEN 1 ELSE 3
\* Song::duration, in milliseconds
SongDuration(s) == SongPackets(s) * PacketMs

RepeatModes == {"Off", "Single", "All"}
PlayerStates == {"NotStarted", "Paused", "Playing", "Finished"}

\* PlayerUpdate
NoUpdate == [kind |-> "none", song |-> NoSong, index |-> 0]
SongChange(index, song) == [kind |-> "SongChange", song |-> song, index |-> index]
DeviceDisconnect == [kind |-> "DeviceDisconnect", song |-> NoSong, index |-> 0]

\* PlayerMessage
StopMsg == [kind |-> "Stop", dur |-> 0]
QuitMsg == [kind |-> "Quit", dur |-> 0]
SeekMsg(d) == [kind |-> "Seek", dur |-> d]

\* durations the UI passes to seek_duration
SeekInputs == {0, SongDuration(2)}

RECURSIVE SeqsUpTo(_)
SeqsUpTo(n) == IF n = 0 THEN {<<>>}
               ELSE LET shorter == SeqsUpTo(n - 1)
                    IN shorter \cup {Append(s, x) : s \in {t \in shorter : Len(t) = n - 1}, x \in Songs}

\* ------------------------------------------------------------------- Queue
QueueNew(items, mode) ==
    [items |-> items, index |-> 0, repeat_mode |-> mode, has_advanced |-> FALSE]

\* Vec::get
Get(items, i) == IF i < Len(items) THEN items[i + 1] ELSE NoSong

\* a next_item that steps forward on its first call as well
NextItemIgnoresAdvanced(q) ==
    IF Len(q.items) = 0 THEN [q |-> q, item |-> NoSong]
    ELSE LET i1 == IF q.repeat_mode # "Single" /\ q.index < Len(q.items)
                   THEN q.index + 1 ELSE q.index
             i2 == IF q.repeat_mode # "Off" THEN i1 % Len(q.items) ELSE i1
         IN [q |-> [q EXCEPT !.index = i2, !.has_advanced = TRUE],
             item |-> Get(q.items, i2)]

\* a next_item that wraps around in mode Off as in the other modes
NextItemWrapsInOff(q) ==
    IF Len(q.items) = 0 THEN [q |-> q, item |-> NoSong]
    ELSE LET i1 == IF q.repeat_mode # "Single" /\ q.has_advanced /\ q.index < Len(q.items)
                   THEN q.index + 1 ELSE q.index
             i2 == i1 % Len(q.items)
         IN [q |-> [q EXCEPT !.index = i2, !.has_advanced = TRUE],
             item |-> Get(q.items, i2)]

\* Queue::next_item: the queue after the call and the item returned
NextItem(q) ==
    IF Len(q.items) = 0 THEN [q |-> q, item |-> NoSong]
    ELSE LET i1 == IF q.repeat_mode # "Single" /\ q.has_advanced /\ q.index < Len(q.items)
                   THEN q.index + 1 ELSE q.index
             i2 == IF q.repeat_mode # "Off" THEN i1 % Len(q.items) ELSE i1
         IN [q |-> [q EXCEPT !.index = i2, !.has_advanced = TRUE],
             item |-> Get(q.items, i2)]

\* Queue::current
Current(q) == Get(q.items, q.index)

\* a jump that moves the cursor but keeps has_advanced
JumpKeepsAdvanced(q, new_index) ==
    IF new_index > Len(q.items) THEN [ok |-> FALSE, q |-> q]
    ELSE [ok |-> TRUE, q |-> [q EXCEPT !.index = new_index]]

\* a jump that accepts one position past the end
JumpAcceptsPastEnd(q, new_index) ==
    IF new_index > Len(q.items) + 1 THEN [ok |-> FALSE, q |-> q]
    ELSE [ok |-> TRUE, q |-> [q EXCEPT !.has_advanced = FALSE, !.index = new_index]]

\* Queue::jump: ok = FALSE is Err(OutOfBoundsError)
Jump(q, new_index) ==
    IF new_index > Len(q.items) THEN [ok |-> FALSE, q |-> q]
    ELSE [ok |-> TRUE, q |-> [q EXCEPT !.has_advanced = FALSE, !.index = new_index]]

\* a rewind that moves the cursor but keeps has_advanced
QueueRewindKeepsAdvanced(q, n) ==
    LET r == IF Len(q.items) = 0 THEN 0
             ELSE IF n <= q.index THEN q.index - n
             ELSE Len(q.items) - (n - q.index)
    IN [ok |-> r <= Len(q.items), q |-> [q EXCEPT !.index = r]]

\* Queue::rewind: ok = FALSE is the panic of the expect on jump
\* (len - (n - index) below zero: the subtraction panics in a debug build and
\* wraps to a value above len in a release build, where jump fails and the
\* expect panics)
QueueRewind(q, n) ==
    LET new_index == IF Len(q.items) = 0 THEN 0
                     ELSE IF n <= q.index THEN q.index - n
                     ELSE IF n - q.index <= Len(q.items) THEN Len(q.items) - (n - q.index)
                     ELSE Len(q.items) + 1
    IN Jump(q, new_index)

\* a skip that does not count the item next_item has already returned
QueueSkipForgetsReturned(q, n) ==
    LET new_index == IF Len(q.items) = 0 THEN 0
                     ELSE IF q.repeat_mode = "Off"
                     THEN (IF q.index + n > Len(q.items) THEN Len(q.items) ELSE q.index + n)
                     ELSE (q.index + n) % Len(q.items)
    IN Jump(q, new_index)

\* a skip that counts one item more on every call
QueueSkipAlwaysCountsReturned(q, n) ==
    LET n1 == n + 1
        new_index == IF Len(q.items) = 0 THEN 0
                     ELSE IF q.repeat_mode = "Off"
                     THEN (IF q.index + n1 > Len(q.items) THEN Len(q.items) ELSE q.index + n1)
                     ELSE (q.index + n1) % Len(q.items)
    IN Jump(q, new_index)

\* Queue::skip: ok = FALSE is the panic of the expect on jump
QueueSkip(q, n) ==
    LET n1 == IF q.has_advanced THEN n + 1 ELSE n
        new_index == IF Len(q.items) = 0 THEN 0
                     ELSE IF q.repeat_mode = "Off"
                     THEN (IF q.index + n1 > Len(q.items) THEN Len(q.items) ELSE q.index + n1)
                     ELSE (q.index + n1) % Len(q.items)
    IN Jump(q, new_index)

\* ------------------------------------------- the Queue<T> of src/src/player.rs
\* Queue::new of player.rs
PlayerQueueNew(items, start_index, mode) ==
    [items |-> items, index |-> start_index, repeat_mode |-> mode, has_advanced |-> FALSE]

\* Queue::next of player.rs: the queue after the call, the item returned and
\* ok = FALSE for a panic (index out of bounds, remainder by a zero len); the
\* index keeps the increment made before a None or a panic
PlayerQueueNext(q) ==
    IF q.repeat_mode = "Single"
    THEN (IF q.index < Len(q.items)
          THEN [q |-> q, item |-> q.items[q.index + 1], ok |-> TRUE]
          ELSE [q |-> q, item |-> NoSong, ok |-> FALSE])
    ELSE LET i1 == IF q.has_advanced THEN q.index + 1 ELSE q.index
             q1 == [q EXCEPT !.index = i1]
         IN IF i1 >= Len(q.items) /\ q.repeat_mode = "Off"
            THEN [q |-> q1, item |-> NoSong, ok |-> TRUE]
            ELSE IF i1 >= Len(q.items) /\ Len(q.items) = 0
            THEN [q |-> q1, item |-> NoSong, ok |-> FALSE]
            ELSE LET i2 == IF i1 >= Len(q.items) THEN i1 % Len(q.items) ELSE i1
                 IN [q |-> [q1 EXCEPT !.index = i2, !.has_advanced = TRUE],
                     item |-> q.items[i2 + 1], ok |-> TRUE]

\* Queue::peek of player.rs: the item returned, ok = FALSE for a panic; the
\* bounds test reads self.index, the item is read at i
PlayerQueuePeek(q) ==
    IF q.repeat_mode = "Single"
    THEN (IF q.index < Len(q.items)
          THEN [item |-> q.items[q.index + 1], ok |-> TRUE]
          ELSE [item |-> NoSong, ok |-> FALSE])
    ELSE LET i == IF q.has_advanced THEN q.index + 1 ELSE q.index
         IN IF q.index >= Len(q.items) /\ q.repeat_mode = "Off"
            THEN [item |-> NoSong, ok |-> TRUE]
            ELSE IF q.index >= Len(q.items) /\ Len(q.items) = 0
            THEN [item |-> NoSong, ok |-> FALSE]
            ELSE LET i2 == IF q.index >= Len(q.items) THEN i % Len(q.items) ELSE i
                 IN IF i2 < Len(q.items)
                    THEN [item |-> q.items[i2 + 1], ok |-> TRUE]
                    ELSE [item |-> NoSong, ok |-> FALSE]

\* Queue::jump of player.rs
PlayerQueueJump(q, n) ==
    [q EXCEPT !.index = IF Len(q.items) = 0 THEN 0 ELSE n % Len(q.items),
              !.has_advanced = FALSE]

\* Queue::skip of player.rs
PlayerQueueSkip(q, n) ==
    PlayerQueueJump(q, q.index + (IF q.has_advanced THEN n + 1 ELSE n))

\* ------------------------------------- the Queue<T> of src/src/queue.rs, edits
\* Vec::insert / Vec::remove at a 0-based position
InsertAt(s, i, x) == SubSeq(s, 1, i) \o <<x>> \o SubSeq(s, i + 1, Len(s))
RemoveAt(s, i) == SubSeq(s, 1, i) \o SubSeq(s, i + 2, Len(s))

\* Queue::push
QueuePush(q, x) == [q EXCEPT !.items = Append(q.items, x)]

\* a clear that leaves the cursor where it was
QueueClearKeepsIndex(q) == [q EXCEPT !.items = <<>>, !.has_advanced = FALSE]

\* Queue::clear
QueueClear(q) == [q EXCEPT !.items = <<>>, !.index = 0, !.has_advanced = FALSE]

\* a remove that leaves the cursor where it was
QueueRemoveKeepsIndex(q, index) ==
    IF index >= Len(q.items) THEN [ok |-> FALSE, q |-> q]
    ELSE [ok |-> TRUE, q |-> [q EXCEPT !.items = RemoveAt(q.items, index)]]

\* Queue::remove: ok = FALSE is the panic of Vec::remove
QueueRemove(q, index) ==
    IF index >= Len(q.items) THEN [ok |-> FALSE, q |-> q]
    ELSE [ok |-> TRUE,
          q |-> [q EXCEPT !.items = RemoveAt(q.items, index),
                          !.index = IF index < q.index THEN q.index - 1 ELSE q.index]]

\* an insert that leaves the cursor where it was
QueueInsertKeepsIndex(q, index, x) ==
    IF index > Len(q.items) THEN [ok |-> FALSE, q |-> q]
    ELSE [ok |-> TRUE, q |-> [q EXCEPT !.items = InsertAt(q.items, index, x)]]

\* Queue::insert: ok = FALSE is the panic of Vec::insert
QueueInsert(q, index, x) ==
    IF index > Len(q.items) THEN [ok |-> FALSE, q |-> q]
    ELSE [ok |-> TRUE,
          q |-> [q EXCEPT !.items = InsertAt(q.items, index, x),
                          !.index = IF index <= q.index THEN q.index + 1 ELSE q.index]]

\* ------------------------------------------------------------------- state
VARIABLES
    queue,          \* Player.queue: Arc<Mutex<Queue<Song>>>
    state,          \* Player.state: Arc<Mutex<PlayerState>>
    sender,         \* Player.sender: 0 is None, n > 0 the sender of the n-th channel
    chan,           \* the commands in the channel of the current sender, oldest first
    timePlaying,    \* Player.time_playing, milliseconds
    alive,          \* number of decoder threads alive
    dpc,            \* position of the decoder thread in its loop
    cause,          \* why the decoder left the song loop, read at the top of 'main_loop
    curSong,        \* decoder local: song
    pos,            \* decoder local: packets the reader has delivered
    playing,        \* decoder local: playing
    streamPlaying,  \* the OS output stream is started
    errPending,     \* a cpal::StreamError waits in stream_rx
    update,         \* the PlayerUpdate this step sent on the update channel
    fpc,            \* position of the UI thread inside a facade call
    result,         \* what the facade call that returned in this step returned
    pauseReq,       \* pause() was called on a live decoder and no resume() since
    updRx,          \* the UI holds the update receiver run() returned
    errPaused,      \* a stream error set the state to Paused and no resume() since
    stopDebt,       \* Stops sent minus queue advances made for a Stop
    playIdx,        \* queue position of the song the decoder took last
    expIdx,         \* position Player::rewind moved the cursor to from the playing item, -1 once reported
    expOrig,        \* position before the playing item when Player::rewind was called, -1 once reported
    staleStops,     \* Stops that were in the channel when the decoder selected the song after an end of stream
    aSongs,         \* SpecAudio: sample rates of the songs the queue delivers, in order
    aNext,          \* SpecAudio: number of songs the decoder has started
    aPackets,       \* decoder local: packets left in the reader of the current song
    aLastRate,      \* decoder local: last_song_sample_rate
    aDeque,         \* decoder local: sample_deque, each frame with the rate of its song
    apc,            \* SpecAudio: position of the decoder thread
    portVal,        \* SampleRatePort: the value last written
    portFresh,      \* SampleRatePort: a write the callback has not taken yet
    ring,           \* the Ring, oldest frame first, each frame with the rate of its song
    devRate,        \* callback: sample_rate_out
    cbRate,         \* callback: input rate the resampler and bypass_resampler are set up for
    cbDeque,        \* callback: sample_deque.len()
    cbPc,           \* position of the callback
    cbPopped,       \* rates of the frames this step popped from the Ring
    qt,             \* SpecQueue: the Queue<T> under test
    qOut,           \* the call this step made on q, its argument and what it returned
    qCalls,         \* next_item calls made on the fresh qt with no other call between, -1 once broken
    qDry,           \* the fresh queue in mode Off has run out: "end" behind its last item, "empty" if it had none, then "cleared" by clear and "grown" once items were added; "no" before that and after a reposition
    qSame,          \* item the last next_item in mode Single returned, NoSong after a reposition
    qEdits,         \* push, insert or remove was called since qSame was first returned
    pq,             \* SpecPlayerQueue: the Queue<T> of player.rs under test
    pOut,           \* the call this step made on pq, its argument and what it returned
    pLast,          \* the item the last next() that returned one has returned, NoSong after skip and jump
    frRing,         \* SpecFrames: the Ring, oldest frame first, each frame with its number in its song
    frDeque,        \* decoder local: sample_deque, frames by number
    frIter,         \* decoder local: sample_iter, the frames of the decoded packet not yet taken
    frReader,       \* packets the reader of the current song still holds
    frDecoded,      \* frames of the current song decoded so far
    frPushed,       \* frames of the current song pushed into a Ring so far
    frPlaying,      \* decoder local: playing
    frPaused,       \* the shared PlayerState is Paused
    frClean,        \* no Stop and no stream error since the current song started
    frPc            \* SpecFrames: position of the decoder thread in 'song_loop

ctlVars == <<queue, state, sender, chan, timePlaying, alive, dpc, cause, curSong, pos,
             playing, streamPlaying, errPending, update, fpc, result,
             pauseReq, errPaused, stopDebt, playIdx, expIdx, expOrig, staleStops, updRx>>

audioVars == <<aSongs, aNext, aPackets, aLastRate, aDeque, apc, portVal, portFresh, ring,
               devRate, cbRate, cbDeque, cbPc, cbPopped>>

qVars == <<qt, qOut, qCalls, qDry, qSame, qEdits>>

pVars == <<pq, pOut, pLast>>

frVars == <<frRing, frDeque, frIter, frReader, frDecoded, frPushed, frPlaying, frPaused, frClean, frPc>>

vars == <<ctlVars, audioVars, qVars, pVars, frVars>>

decoderVars == <<dpc, cause, curSong, pos, playing>>
streamVars == <<streamPlaying, errPending>>
rewindVars == <<playIdx, expIdx, expOrig, staleStops>>

DecoderAlive == dpc \notin {"none", "done", "panicked"}

CountStops(c) == Cardinality({i \in 1..Len(c) : c[i].kind = "Stop"})

\* Player::new / Player::with_queue
CtlInit ==
    /\ \E items \in SeqsUpTo(MaxItems), mode \in RepeatModes :
           queue = QueueNew(items, mode)
    /\ state = "NotStarted"
    /\ sender = 0
    /\ chan = <<>>
    /\ timePlaying = 0
    /\ alive = 0
    /\ dpc = "none"
    /\ cause = "none"
    /\ curSong = NoSong
    /\ pos = 0
    /\ playing = FALSE
    /\ streamPlaying = FALSE
    /\ errPending = FALSE
    /\ update = NoUpdate
    /\ fpc = "idle"
    /\ result = "none"
    /\ pauseReq = FALSE
    /\ errPaused = FALSE
    /\ updRx = FALSE
    /\ stopDebt = 0
    /\ playIdx = 0
    /\ expIdx = -1
    /\ expOrig = -1
    /\ staleStops = 0

\* the data plane at rest: what Spec holds it at
AudioParked ==
    /\ aSongs = <<>>
    /\ aNext = 0
    /\ aPackets = 0
    /\ aLastRate = 44100
    /\ aDeque = <<>>
    /\ apc = "done"
    /\ portVal = 44100
    /\ portFresh = FALSE
    /\ ring = <<>>
    /\ devRate = 44100
    /\ cbRate = 44100
    /\ cbDeque = 0
    /\ cbPc = "idle"
    /\ cbPopped = {}

NoCall == [op |-> "none", arg |-> 0, item |-> NoSong, res |-> "none"]

\* the queue under test at rest: what the other specifications hold it at
QParked ==
    /\ qt = QueueNew(<<>>, "Off")
    /\ qOut = NoCall
    /\ qCalls = -1
    /\ qDry = "no"
    /\ qSame = NoSong
    /\ qEdits = FALSE

\* the Queue of player.rs at rest: Queue::default()
PParked ==
    /\ pq = PlayerQueueNew(<<>>, 0, "Off")
    /\ pOut = NoCall
    /\ pLast = NoSong

\* the numbered-frame data path at rest: no song started
FrParked ==
    /\ frRing = <<>>
    /\ frDeque = <<>>
    /\ frIter = <<>>
    /\ frReader = 0
    /\ frDecoded = 0
    /\ frPushed = 0
    /\ frPlaying = TRUE
    /\ frPaused = FALSE
    /\ frClean = TRUE
    /\ frPc = "parked"

Init == CtlInit /\ AudioParked /\ QParked /\ PParked /\ FrParked

\* ------------------------------------------------------- the decoder thread
\* The thread ends: its stream, control_rx and update sender are dropped.
Terminate(how) ==
    /\ dpc' = how
    /\ alive' = alive - 1
    /\ chan' = <<>>
    /\ streamPlaying' = FALSE
    /\ errPending' = FALSE

\* stream_setup and stream.play() before 'main_loop
D_Init ==
    /\ dpc = "init"
    /\ dpc' = "select"
    /\ streamPlaying' = TRUE
    /\ update' = NoUpdate
    /\ result' = "none"
    /\ UNCHANGED <<queue, state, sender, chan, timePlaying, alive, cause, curSong, pos,
                   playing, errPending, fpc, pauseReq, errPaused, stopDebt, rewindVars>>
    /\ UNCHANGED updRx
    /\ UNCHANGED audioVars
    /\ UNCHANGED <<qVars, pVars, frVars>>

\* an update send that ends the thread when the receiver is gone
UpdateSendBreaksOnDrop(rx) == ~rx

\* let _ = player_update_tx.send(..): the result of the send is not looked at
UpdateSendBreaks(rx) == FALSE

\* a selection that goes on to play whatever next_item returned
SelectNeverBreaks(item) == FALSE

\* let Some(song) = next_song else { break }
SelectBreaks(item) == item = NoSong

\* top of 'main_loop: the queue is locked, the next song taken and reported
D_Select ==
    /\ dpc = "select"
    /\ LET index == queue.index
           r == NextItem(queue)
       IN /\ queue' = r.q
          /\ update' = SongChange(index, r.item)
          /\ curSong' = r.item
          /\ IF SelectBreaks(r.item) \/ UpdateSendBreaks(updRx)
             THEN Terminate("done")
             ELSE /\ dpc' = "open"
                  /\ UNCHANGED <<alive, chan, streamVars>>
    /\ stopDebt' = IF cause = "stop" THEN stopDebt - 1 ELSE stopDebt
    /\ cause' = "none"
    /\ playIdx' = queue'.index
    /\ expIdx' = -1
    /\ expOrig' = -1
    /\ staleStops' = IF cause = "eof" THEN CountStops(chan') ELSE 0
    /\ result' = "none"
    /\ UNCHANGED <<state, sender, timePlaying, pos, playing, fpc, pauseReq, errPaused>>
    /\ UNCHANGED updRx
    /\ UNCHANGED audioVars
    /\ UNCHANGED <<qVars, pVars, frVars>>

\* song start: reader and decoder opened, time_playing reset, state set to Playing
D_StartSong ==
    /\ dpc = "open"
    /\ timePlaying' = 0
    /\ state' = "Playing"
    /\ pos' = 0
    /\ playing' = TRUE
    /\ dpc' = "poll"
    /\ update' = NoUpdate
    /\ result' = "none"
    /\ UNCHANGED <<queue, sender, chan, alive, cause, curSong, streamVars, fpc, pauseReq, errPaused,
                   stopDebt, rewindVars>>
    /\ UNCHANGED updRx
    /\ UNCHANGED audioVars
    /\ UNCHANGED <<qVars, pVars, frVars>>

\* top of 'song_loop: stream_rx.try_recv()
D_Poll ==
    /\ dpc = "poll"
    /\ dpc' = "drain"
    /\ IF errPending
       THEN /\ state' = "Paused"
            /\ errPending' = FALSE
            \* the rebuilt stream is not started by the code; whether it runs
            \* before play() is called is up to the host
            /\ streamPlaying' \in BOOLEAN
            /\ update' = DeviceDisconnect
            /\ errPaused' = TRUE
       ELSE /\ update' = NoUpdate
            /\ UNCHANGED <<state, streamVars, errPaused>>
    /\ result' = "none"
    /\ UNCHANGED <<queue, sender, chan, timePlaying, alive, cause, curSong, pos, playing,
                   fpc, pauseReq, stopDebt, rewindVars>>
    /\ UNCHANGED updRx
    /\ UNCHANGED audioVars
    /\ UNCHANGED <<qVars, pVars, frVars>>

\* control_rx.try_iter() finds the channel empty
D_DrainEmpty ==
    /\ dpc = "drain"
    /\ chan = <<>>
    /\ dpc' = "gate"
    /\ update' = NoUpdate
    /\ result' = "none"
    /\ UNCHANGED <<queue, state, sender, chan, timePlaying, alive, cause, curSong, pos,
                   playing, streamVars, fpc, pauseReq, errPaused, stopDebt, rewindVars>>
    /\ UNCHANGED updRx
    /\ UNCHANGED audioVars
    /\ UNCHANGED <<qVars, pVars, frVars>>

\* a drain that acts on Quit only while the decoder plays
QuitOnlyWhilePlaying(c) == c # <<>> /\ Head(c).kind = "Quit" /\ playing

\* the drain takes a Quit off the channel
QuitDequeued(c) == c # <<>> /\ Head(c).kind = "Quit"

\* PlayerMessage::Quit => break 'main_loop
D_Quit ==
    /\ dpc = "drain"
    /\ QuitDequeued(chan)
    /\ Terminate("done")
    /\ update' = NoUpdate
    /\ result' = "none"
    /\ UNCHANGED <<queue, state, sender, timePlaying, cause, curSong, pos, playing, fpc,
                   pauseReq, errPaused, stopDebt, rewindVars>>
    /\ UNCHANGED updRx
    /\ UNCHANGED audioVars
    /\ UNCHANGED <<qVars, pVars, frVars>>

\* a drain that throws away what is queued behind a Stop
StopDrainDiscards(c) == <<>>

\* what is left in the channel when the drain breaks out of 'song_loop on a Stop
StopDrain(c) == Tail(c)

\* PlayerMessage::Stop => break 'song_loop
D_Stop ==
    /\ dpc = "drain"
    /\ chan # <<>>
    /\ Head(chan).kind = "Stop"
    /\ chan' = StopDrain(chan)
    /\ dpc' = "select"
    /\ cause' = "stop"
    /\ update' = NoUpdate
    /\ result' = "none"
    /\ UNCHANGED <<queue, state, sender, timePlaying, alive, curSong, pos, playing,
                   streamVars, fpc, pauseReq, errPaused, stopDebt, rewindVars>>
    /\ UNCHANGED updRx
    /\ UNCHANGED audioVars
    /\ UNCHANGED <<qVars, pVars, frVars>>

\* a failed seek that throws away the commands behind it
RestAfterSeekErrorDrained(c) == <<>>

\* the channel after 'continue 'main_loop' in the Seek arm: the try_iter is
\* dropped and the messages behind the Seek stay in the channel
RestAfterSeekError(c) == Tail(c)

\* PlayerMessage::Seek(dur): reader.seek succeeds, fails with an IoError
\* (continue 'main_loop) or fails with another error (panic)
D_Seek ==
    /\ dpc = "drain"
    /\ chan # <<>>
    /\ Head(chan).kind = "Seek"
    /\ LET d == Head(chan).dur
       IN \/ /\ d <= SongDuration(curSong)
             /\ pos' = d \div PacketMs
             /\ timePlaying' = (d \div PacketMs) * PacketMs
             /\ chan' = Tail(chan)
             /\ UNCHANGED <<dpc, cause, alive, streamVars>>
          \/ /\ dpc' = "select"
             /\ cause' = "seek"
             /\ chan' = RestAfterSeekError(chan)
             /\ UNCHANGED <<pos, timePlaying, alive, streamVars>>
          \/ /\ d > SongDuration(curSong)
             /\ Terminate("panicked")
             /\ UNCHANGED <<pos, timePlaying, cause>>
    /\ update' = NoUpdate
    /\ result' = "none"
    /\ UNCHANGED <<queue, state, sender, curSong, playing, fpc, pauseReq, errPaused, stopDebt,
                   rewindVars>>
    /\ UNCHANGED updRx
    /\ UNCHANGED audioVars
    /\ UNCHANGED <<qVars, pVars, frVars>>

\* playback gate
D_Gate ==
    /\ dpc = "gate"
    /\ IF playing
       THEN IF state = "Paused"
            THEN playing' = FALSE /\ streamPlaying' = FALSE
            ELSE UNCHANGED <<playing, streamPlaying>>
       ELSE IF state = "Playing"
            THEN playing' = TRUE /\ streamPlaying' = TRUE
            ELSE UNCHANGED <<playing, streamPlaying>>
    /\ dpc' = IF playing' THEN "decode" ELSE "poll"
    /\ update' = NoUpdate
    /\ result' = "none"
    /\ UNCHANGED <<queue, state, sender, chan, timePlaying, alive, cause, curSong, pos,
                   errPending, fpc, pauseReq, errPaused, stopDebt, rewindVars>>
    /\ UNCHANGED updRx
    /\ UNCHANGED audioVars
    /\ UNCHANGED <<qVars, pVars, frVars>>

\* decode-push: reader.next_packet() ends the song or delivers a packet, whose
\* frames go to the Ring and whose timestamp goes to time_playing
D_Decode ==
    /\ dpc = "decode"
    /\ IF pos >= SongPackets(curSong)
       THEN /\ dpc' = "select"
            /\ cause' = "eof"
            /\ UNCHANGED <<pos, timePlaying>>
       ELSE /\ dpc' = "poll"
            /\ pos' = pos + 1
            /\ timePlaying' = pos * PacketMs
            /\ UNCHANGED cause
    /\ update' = NoUpdate
    /\ result' = "none"
    /\ UNCHANGED <<queue, state, sender, chan, alive, curSong, playing, streamVars, fpc,
                   pauseReq, errPaused, stopDebt, rewindVars>>
    /\ UNCHANGED updRx
    /\ UNCHANGED audioVars
    /\ UNCHANGED <<qVars, pVars, frVars>>

\* the err_fn of the stream sends a cpal::StreamError
DeviceError ==
    /\ DecoderAlive
    /\ dpc # "init"
    /\ ~errPending
    /\ errPending' = TRUE
    /\ update' = NoUpdate
    /\ result' = "none"
    /\ UNCHANGED <<queue, state, sender, chan, timePlaying, alive, decoderVars,
                   streamPlaying, fpc, pauseReq, errPaused, stopDebt, rewindVars>>
    /\ UNCHANGED updRx
    /\ UNCHANGED audioVars
    /\ UNCHANGED <<qVars, pVars, frVars>>

Decoder ==
    \/ D_Init
    \/ D_Select
    \/ D_StartSong
    \/ D_Poll
    \/ D_DrainEmpty
    \/ D_Quit
    \/ D_Stop
    \/ D_Seek
    \/ D_Gate
    \/ D_Decode

\* --------------------------------------------------------- the Player facade
\* a run that takes only a Playing decoder for a running one
IsRunningOnlyPlaying(s) == s = "Playing"

\* PlayerState::Playing | PlayerState::Paused
IsRunning(s) == s \in {"Playing", "Paused"}

\* tx.send(message).is_ok(): there is a sender and its receiver is not dropped
CanSend == sender # 0 /\ DecoderAlive

\* Player::send_message: the channel after the call
SendMessage(c, m) == IF CanSend THEN Append(c, m) ELSE c

\* Player::run
Run ==
    /\ fpc = "idle"
    /\ IF IsRunning(state)
       THEN /\ result' = "PlayerRunning"
            /\ UNCHANGED <<state, sender, chan, alive, decoderVars, streamVars, pauseReq,
                           errPaused, stopDebt, updRx>>
       ELSE /\ state' = "Paused"
            /\ sender' = sender + 1
            /\ chan' = <<>>
            /\ alive' = alive + 1
            /\ dpc' = "init"
            /\ cause' = "none"
            /\ curSong' = NoSong
            /\ pos' = 0
            /\ playing' = FALSE
            /\ streamPlaying' = FALSE
            /\ errPending' = FALSE
            /\ pauseReq' = FALSE
            /\ errPaused' = FALSE
            /\ updRx' = TRUE
            /\ stopDebt' = 0
            /\ result' = "Ok"
    /\ update' = NoUpdate
    /\ UNCHANGED <<queue, timePlaying, fpc, rewindVars>>
    /\ UNCHANGED audioVars
    /\ UNCHANGED <<qVars, pVars, frVars>>

\* Player::pause
Pause ==
    /\ fpc = "idle"
    /\ state' = "Paused"
    /\ pauseReq' = DecoderAlive
    /\ update' = NoUpdate
    /\ result' = "none"
    /\ UNCHANGED <<queue, sender, chan, timePlaying, alive, decoderVars, streamVars, fpc,
                   errPaused, stopDebt, rewindVars>>
    /\ UNCHANGED updRx
    /\ UNCHANGED audioVars
    /\ UNCHANGED <<qVars, pVars, frVars>>

\* Player::resume
Resume ==
    /\ fpc = "idle"
    /\ state' = "Playing"
    /\ pauseReq' = FALSE
    /\ errPaused' = FALSE
    /\ update' = NoUpdate
    /\ result' = "none"
    /\ UNCHANGED <<queue, sender, chan, timePlaying, alive, decoderVars, streamVars, fpc,
                   stopDebt, rewindVars>>
    /\ UNCHANGED updRx
    /\ UNCHANGED audioVars
    /\ UNCHANGED <<qVars, pVars, frVars>>

\* Player::stop
Stop ==
    /\ fpc = "idle"
    /\ Len(chan) < MaxChan
    /\ chan' = SendMessage(chan, StopMsg)
    /\ stopDebt' = IF CanSend THEN stopDebt + 1 ELSE stopDebt
    /\ update' = NoUpdate
    /\ result' = IF CanSend THEN "true" ELSE "false"
    /\ UNCHANGED <<queue, state, sender, timePlaying, alive, decoderVars, streamVars, fpc,
                   pauseReq, errPaused, rewindVars>>
    /\ UNCHANGED updRx
    /\ UNCHANGED audioVars
    /\ UNCHANGED <<qVars, pVars, frVars>>

\* Player::fast_forward
FastForward == Stop

\* Player::quit
Quit ==
    /\ fpc = "idle"
    /\ Len(chan) < MaxChan
    /\ chan' = SendMessage(chan, QuitMsg)
    /\ update' = NoUpdate
    /\ result' = IF CanSend THEN "true" ELSE "false"
    /\ UNCHANGED <<queue, state, sender, timePlaying, alive, decoderVars, streamVars, fpc,
                   pauseReq, errPaused, stopDebt, rewindVars>>
    /\ UNCHANGED updRx
    /\ UNCHANGED audioVars
    /\ UNCHANGED <<qVars, pVars, frVars>>

\* a seek_duration that checks the range with >= instead of >
SeekRangeErrorOffByOne(d, q) == d >= SongDuration(Current(q))

\* duration > duration_max, for a queue with a current song
SeekRangeError(d, q) == d > SongDuration(Current(q))

\* Player::seek_duration
SeekDuration(d) ==
    /\ fpc = "idle"
    /\ Len(chan) < MaxChan
    /\ IF Current(queue) = NoSong
       THEN result' = "NoCurrentSong" /\ chan' = chan
       ELSE IF SeekRangeError(d, queue)
            THEN result' = "OutOfRange" /\ chan' = chan
            ELSE /\ chan' = SendMessage(chan, SeekMsg(d))
                 /\ result' = IF CanSend THEN "Ok(true)" ELSE "Ok(false)"
    /\ update' = NoUpdate
    /\ UNCHANGED <<queue, state, sender, timePlaying, alive, decoderVars, streamVars, fpc,
                   pauseReq, errPaused, stopDebt, rewindVars>>
    /\ UNCHANGED updRx
    /\ UNCHANGED audioVars
    /\ UNCHANGED <<qVars, pVars, frVars>>

\* Player::rewind, the test: time_playing is loaded, the queue locked for current()
RewindBegin ==
    /\ fpc = "idle"
    /\ Len(chan) < MaxChan
    /\ fpc' = IF timePlaying > RewindToleranceMs /\ Current(queue) # NoSong
              THEN "rewind_seek" ELSE "rewind_queue"
    /\ expOrig' = IF /\ timePlaying <= RewindToleranceMs
                     /\ dpc \in {"poll", "drain", "gate", "decode"}
                     /\ queue.repeat_mode = "All"
                  THEN (playIdx + Len(queue.items) - 1) % Len(queue.items)
                  ELSE -1
    /\ update' = NoUpdate
    /\ result' = "none"
    /\ UNCHANGED <<queue, state, sender, chan, timePlaying, alive, decoderVars, streamVars,
                   pauseReq, errPaused, stopDebt, playIdx, expIdx, staleStops>>
    /\ UNCHANGED updRx
    /\ UNCHANGED audioVars
    /\ UNCHANGED <<qVars, pVars, frVars>>

\* Player::rewind, first branch: seek_duration(Duration::from_secs(0)).expect(..)
RewindSeek ==
    /\ fpc = "rewind_seek"
    /\ IF Current(queue) = NoSong
       THEN fpc' = "panicked" /\ result' = "panic" /\ chan' = chan
       ELSE /\ fpc' = "idle"
            /\ chan' = SendMessage(chan, SeekMsg(0))
            /\ result' = "none"
    /\ update' = NoUpdate
    /\ UNCHANGED <<queue, state, sender, timePlaying, alive, decoderVars, streamVars,
                   pauseReq, errPaused, stopDebt, rewindVars>>
    /\ UNCHANGED updRx
    /\ UNCHANGED audioVars
    /\ UNCHANGED <<qVars, pVars, frVars>>

\* Player::rewind, second branch: queue_mut().rewind(1)
RewindQueue ==
    /\ fpc = "rewind_queue"
    /\ LET r == QueueRewind(queue, 1)
       IN /\ queue' = r.q
          /\ fpc' = IF r.ok THEN "rewind_stop" ELSE "panicked"
          /\ result' = IF r.ok THEN "none" ELSE "panic"
    /\ expIdx' = IF /\ dpc \in {"poll", "drain", "gate", "decode"}
                    /\ queue.repeat_mode = "All"
                    /\ queue.index = playIdx
                    /\ queue.has_advanced
                 THEN (playIdx + Len(queue.items) - 1) % Len(queue.items)
                 ELSE -1
    /\ update' = NoUpdate
    /\ UNCHANGED <<state, sender, chan, timePlaying, alive, decoderVars, streamVars,
                   pauseReq, errPaused, stopDebt, playIdx, expOrig, staleStops>>
    /\ UNCHANGED updRx
    /\ UNCHANGED audioVars
    /\ UNCHANGED <<qVars, pVars, frVars>>

\* Player::rewind, second branch: self.stop()
RewindStop ==
    /\ fpc = "rewind_stop"
    /\ fpc' = "idle"
    /\ chan' = SendMessage(chan, StopMsg)
    /\ stopDebt' = IF CanSend THEN stopDebt + 1 ELSE stopDebt
    /\ update' = NoUpdate
    /\ result' = "none"
    /\ UNCHANGED <<queue, state, sender, timePlaying, alive, decoderVars, streamVars,
                   pauseReq, errPaused, rewindVars>>
    /\ UNCHANGED updRx
    /\ UNCHANGED audioVars
    /\ UNCHANGED <<qVars, pVars, frVars>>

Facade ==
    \/ Run
    \/ Pause
    \/ Resume
    \/ Stop
    \/ FastForward
    \/ Quit
    \/ \E d \in SeekInputs : SeekDuration(d)
    \/ RewindBegin
    \/ RewindSeek
    \/ RewindQueue
    \/ RewindStop

\* ----------------------------------------------------------- the data plane
\* sample rates of the song files and of the output device
Rates == {44100, 48000}

\* packets in the file of every song of SpecAudio
AudioSongPackets == 2

RECURSIVE RateSeqs(_)
RateSeqs(n) == IF n = 0 THEN {<<>>}
               ELSE LET shorter == RateSeqs(n - 1)
                    IN shorter \cup {Append(s, r) : s \in {t \in shorter : Len(t) = n - 1}, r \in Rates}

Min(a, b) == IF a < b THEN a ELSE b

\* the first n elements of a sequence / what is left behind them
Take(s, n) == SubSeq(s, 1, n)
Drop(s, n) == SubSeq(s, n + 1, Len(s))

\* n frames of a song whose rate is r
Frames(r, n) == [i \in 1..n |-> r]

\* the thread's locals before 'main_loop and the callback's captures in create_stream
AudioInit ==
    /\ aSongs \in RateSeqs(MaxAudioSongs)
    /\ aNext = 0
    /\ aPackets = 0
    /\ aLastRate = 44100
    /\ aDeque = <<>>
    /\ apc = "start"
    /\ portVal = 44100
    /\ portFresh = FALSE
    /\ ring = <<>>
    /\ devRate \in Rates
    /\ cbRate = 44100
    /\ cbDeque = 0
    /\ cbPc = "idle"
    /\ cbPopped = {}

\* the control plane as SpecAudio holds it: a player on an empty queue
CtlParked == CtlInit /\ queue = QueueNew(<<>>, "Off")

InitAudio == CtlParked /\ AudioInit /\ QParked /\ PParked /\ FrParked

callbackVars == <<devRate, cbRate, cbDeque, cbPc>>

\* a song start that publishes the rate of every song
RateAlwaysPublished(last_song_sample_rate, song_sample_rate) == TRUE

\* the test that guards the write to the SampleRatePort
RateDiffers(last_song_sample_rate, song_sample_rate) ==
    last_song_sample_rate # song_sample_rate

\* top of 'main_loop to the head of 'song_loop: the next song is taken, its
\* rate published when it differs from the last one, a new sample_deque made
A_StartSong ==
    /\ apc = "start"
    /\ IF aNext >= Len(aSongs)
       THEN /\ apc' = "done"
            /\ UNCHANGED <<aNext, aPackets, aLastRate, aDeque, portVal, portFresh>>
       ELSE LET song_sample_rate == aSongs[aNext + 1]
            IN /\ aNext' = aNext + 1
               /\ aPackets' = AudioSongPackets
               /\ IF RateDiffers(aLastRate, song_sample_rate)
                  THEN /\ portVal' = song_sample_rate
                       /\ portFresh' = TRUE
                       /\ aLastRate' = song_sample_rate
                  ELSE UNCHANGED <<portVal, portFresh, aLastRate>>
               /\ aDeque' = <<>>
               /\ apc' = "flush"
    /\ cbPopped' = {}
    /\ UNCHANGED <<aSongs, ring, callbackVars>>
    /\ UNCHANGED ctlVars
    /\ UNCHANGED <<qVars, pVars, frVars>>

\* 'song_loop, first half: frames kept back go to the Ring while it has room
A_Flush ==
    /\ apc = "flush"
    /\ LET n == Min(Len(aDeque), RingCap - Len(ring))
       IN /\ ring' = ring \o Take(aDeque, n)
          /\ aDeque' = Drop(aDeque, n)
    /\ apc' = "decode"
    /\ cbPopped' = {}
    /\ UNCHANGED <<aSongs, aNext, aPackets, aLastRate, portVal, portFresh, callbackVars>>
    /\ UNCHANGED ctlVars
    /\ UNCHANGED <<qVars, pVars, frVars>>

\* 'song_loop, second half: with nothing kept back the next packet is decoded,
\* pushed while more than two slots are vacant and the rest kept back
A_Decode ==
    /\ apc = "decode"
    /\ IF aDeque # <<>>
       THEN /\ apc' = "flush"
            /\ UNCHANGED <<aPackets, aDeque, ring>>
       ELSE IF aPackets = 0
       THEN /\ apc' = "start"
            /\ UNCHANGED <<aPackets, aDeque, ring>>
       ELSE LET vacant_len == RingCap - Len(ring)
                n == IF vacant_len > 2 THEN Min(PacketFrames, vacant_len - 2) ELSE 0
            IN /\ ring' = ring \o Frames(aSongs[aNext], n)
               /\ aDeque' = Frames(aSongs[aNext], PacketFrames - n)
               /\ aPackets' = aPackets - 1
               /\ apc' = "flush"
    /\ cbPopped' = {}
    /\ UNCHANGED <<aSongs, aNext, aLastRate, portVal, portFresh, callbackVars>>
    /\ UNCHANGED ctlVars
    /\ UNCHANGED <<qVars, pVars, frVars>>

\* PlayerMessage::Stop taken in the drain: break 'song_loop
A_Stop ==
    /\ apc \in {"flush", "decode"}
    /\ apc' = "start"
    /\ cbPopped' = {}
    /\ UNCHANGED <<aSongs, aNext, aPackets, aLastRate, aDeque, portVal, portFresh, ring,
                   callbackVars>>
    /\ UNCHANGED ctlVars
    /\ UNCHANGED <<qVars, pVars, frVars>>

AudioDecoder ==
    \/ A_StartSong
    \/ A_Flush
    \/ A_Decode
    \/ A_Stop

\* frames one resampler chunk gives for input rate r: more than it takes when
\* the device is faster than the file, fewer when it is slower
ResampledFrames(r, out) == IF r < out THEN ChunkFrames + 1 ELSE ChunkFrames - 1

\* frames a bypass pass passes on from k popped frames
BypassFrames(k) == k

\* frames one pass of the callback's while loop takes from a Ring holding n frames
RefillTake(r, out, n) == Min(IF r = out THEN DataLen ELSE ChunkFrames, n)

\* frames one pass of the callback's while loop adds to its sample_deque
RefillOutput(r, out, n) ==
    IF r = out THEN BypassFrames(RefillTake(r, out, n)) ELSE ResampledFrames(r, out)

\* the device calls the callback: sample_rate_update is polled, once
CB_Invoke ==
    /\ cbPc = "idle"
    /\ apc # "done"
    /\ IF portFresh
       THEN /\ cbRate' = portVal
            /\ portFresh' = FALSE
       ELSE UNCHANGED <<cbRate, portFresh>>
    /\ cbPc' = "refill"
    /\ cbPopped' = {}
    /\ UNCHANGED <<aSongs, aNext, aPackets, aLastRate, aDeque, apc, portVal, ring,
                   devRate, cbDeque>>
    /\ UNCHANGED ctlVars
    /\ UNCHANGED <<qVars, pVars, frVars>>

\* one pass of while sample_deque.len() < data.len()
CB_Refill ==
    /\ cbPc = "refill"
    /\ cbDeque < DataLen
    /\ LET k == RefillTake(cbRate, devRate, Len(ring))
       IN /\ cbPopped' = {ring[i] : i \in 1..k}
          /\ ring' = Drop(ring, k)
          /\ cbDeque' = cbDeque + 2 * RefillOutput(cbRate, devRate, Len(ring))
    /\ UNCHANGED <<aSongs, aNext, aPackets, aLastRate, aDeque, apc, portVal, portFresh,
                   devRate, cbRate, cbPc>>
    /\ UNCHANGED ctlVars
    /\ UNCHANGED <<qVars, pVars, frVars>>

\* write_audio with channel_factor 1: one sample leaves the deque per slot of data
CB_Write ==
    /\ cbPc = "refill"
    /\ cbDeque >= DataLen
    /\ cbDeque' = cbDeque - DataLen
    /\ cbPc' = "idle"
    /\ cbPopped' = {}
    /\ UNCHANGED <<aSongs, aNext, aPackets, aLastRate, aDeque, apc, portVal, portFresh, ring,
                   devRate, cbRate>>
    /\ UNCHANGED ctlVars
    /\ UNCHANGED <<qVars, pVars, frVars>>

Callback ==
    \/ CB_Invoke
    \/ CB_Refill
    \/ CB_Write

NextAudio ==
    \/ AudioDecoder
    \/ Callback

SpecAudio == InitAudio /\ [][NextAudio]_vars

\* ------------------------------------------------------------ Queue<T> alone
\* items of the queue under test: one more than fit, so that an insert always
\* finds an item the queue does not hold
QItems == 1..(MaxQLen + 1)

Range(s) == {s[i] : i \in 1..Len(s)}

\* Queue::new(mode) followed by extend([1, .., len])
QInit ==
    /\ \E len \in 0..MaxQLen, mode \in RepeatModes :
           qt = QueueNew([i \in 1..len |-> i], mode)
    /\ qOut = NoCall
    /\ qCalls = 0
    /\ qDry = "no"
    /\ qSame = NoSong
    /\ qEdits = FALSE

InitQueue == CtlParked /\ AudioParked /\ QInit /\ PParked /\ FrParked

\* what a call reports: the call, its argument, the item and the result
Call(op, arg, item, res) == [op |-> op, arg |-> arg, item |-> item, res |-> res]

Res(ok) == IF ok THEN "Ok" ELSE "Err"
Panics(ok) == IF ok THEN "Ok" ELSE "panic"

\* Queue::next_item
Q_NextItem ==
    /\ LET r == NextItem(qt)
       IN /\ qt' = r.q
          /\ qOut' = Call("next_item", 0, r.item, "Ok")
          /\ qDry' = IF qt.repeat_mode = "Off" /\ r.item = NoSong /\ (qCalls >= 0 \/ qDry # "no")
                     THEN (IF qDry # "no" THEN qDry
                           ELSE IF Len(qt.items) = 0 THEN "empty" ELSE "end")
                     ELSE "no"
          /\ qSame' = IF qt.repeat_mode = "Single" THEN r.item ELSE NoSong
          /\ qEdits' = (qEdits /\ qSame # NoSong /\ r.item = qSame)
    /\ qCalls' = IF qCalls >= 0 /\ qCalls < MaxCalls THEN qCalls + 1 ELSE -1
    /\ UNCHANGED <<ctlVars, audioVars, pVars, frVars>>

\* Queue::jump
Q_Jump(n) ==
    /\ LET r == Jump(qt, n)
       IN /\ qt' = r.q
          /\ qOut' = Call("jump", n, NoSong, Res(r.ok))
    /\ qCalls' = -1
    /\ qDry' = "no"
    /\ qSame' = NoSong
    /\ qEdits' = FALSE
    /\ UNCHANGED <<ctlVars, audioVars, pVars, frVars>>

\* Queue::skip
Q_Skip(n) ==
    /\ LET r == QueueSkip(qt, n)
       IN /\ qt' = r.q
          /\ qOut' = Call("skip", n, NoSong, Panics(r.ok))
    /\ qCalls' = -1
    /\ qDry' = "no"
    /\ qSame' = NoSong
    /\ qEdits' = FALSE
    /\ UNCHANGED <<ctlVars, audioVars, pVars, frVars>>

\* Queue::rewind
Q_Rewind(n) ==
    /\ LET r == QueueRewind(qt, n)
       IN /\ qt' = r.q
          /\ qOut' = Call("rewind", n, NoSong, Panics(r.ok))
    /\ qCalls' = -1
    /\ qDry' = "no"
    /\ qSame' = NoSong
    /\ qEdits' = FALSE
    /\ UNCHANGED <<ctlVars, audioVars, pVars, frVars>>

\* Queue::clear
Q_Clear ==
    /\ qt' = QueueClear(qt)
    /\ qOut' = Call("clear", 0, NoSong, "Ok")
    /\ qCalls' = -1
    /\ qDry' = IF qDry = "no" THEN "no" ELSE "cleared"
    /\ qSame' = NoSong
    /\ qEdits' = FALSE
    /\ UNCHANGED <<ctlVars, audioVars, pVars, frVars>>

\* Queue::push of an item the queue does not hold
Q_Push(x) ==
    /\ Len(qt.items) < MaxQLen
    /\ x \notin Range(qt.items)
    /\ qt' = QueuePush(qt, x)
    /\ qOut' = Call("push", Len(qt.items), x, "Ok")
    /\ qCalls' = -1
    /\ qEdits' = (qSame # NoSong)
    /\ qDry' = IF qDry = "no" THEN "no" ELSE "grown"
    /\ UNCHANGED qSame
    /\ UNCHANGED <<ctlVars, audioVars, pVars, frVars>>

\* Queue::insert of an item the queue does not hold
Q_Insert(index, x) ==
    /\ Len(qt.items) < MaxQLen
    /\ x \notin Range(qt.items)
    /\ LET r == QueueInsert(qt, index, x)
       IN /\ qt' = r.q
          /\ qOut' = Call("insert", index, x, Panics(r.ok))
    /\ qCalls' = -1
    /\ qEdits' = (qSame # NoSong)
    /\ qDry' = IF qDry = "no" THEN "no" ELSE "grown"
    /\ UNCHANGED qSame
    /\ UNCHANGED <<ctlVars, audioVars, pVars, frVars>>

\* Queue::remove; taking out the item under the cursor ends a Single run
Q_Remove(index) ==
    /\ LET r == QueueRemove(qt, index)
       IN /\ qt' = r.q
          /\ qOut' = Call("remove", index, Get(qt.items, index), Panics(r.ok))
          /\ qSame' = IF r.ok /\ index = qt.index THEN NoSong ELSE qSame
          /\ qEdits' = (qSame' # NoSong)
    /\ qCalls' = -1
    /\ UNCHANGED qDry
    /\ UNCHANGED <<ctlVars, audioVars, pVars, frVars>>

\* an assignment to the public field repeat_mode
Q_SetRepeatMode(mode) ==
    /\ mode # qt.repeat_mode
    /\ qt' = [qt EXCEPT !.repeat_mode = mode]
    /\ qOut' = Call("repeat_mode", 0, NoSong, "Ok")
    /\ qCalls' = -1
    /\ qDry' = "no"
    /\ qSame' = NoSong
    /\ qEdits' = FALSE
    /\ UNCHANGED <<ctlVars, audioVars, pVars, frVars>>

NextQueue ==
    \/ Q_NextItem
    \/ \E n \in 0..(MaxQLen + 1) : Q_Jump(n)
    \/ \E n \in 0..MaxStep : Q_Skip(n)
    \/ \E n \in 0..MaxStep : Q_Rewind(n)
    \/ Q_Clear
    \/ \E x \in QItems : Q_Push(x)
    \/ \E i \in 0..MaxQLen, x \in QItems : Q_Insert(i, x)
    \/ \E i \in 0..MaxQLen : Q_Remove(i)
    \/ \E mode \in RepeatModes : Q_SetRepeatMode(mode)

SpecQueue == InitQueue /\ [][NextQueue]_vars

\* ------------------------------------------- the Queue<T> of player.rs alone
\* Queue::new(vec![1, .., len], start_index, mode)
PInit ==
    /\ \E len \in 0..MaxQLen, start_index \in 0..MaxQLen, mode \in RepeatModes :
           pq = PlayerQueueNew([i \in 1..len |-> i], start_index, mode)
    /\ pOut = NoCall
    /\ pLast = NoSong

InitPlayerQueue == CtlParked /\ AudioParked /\ QParked /\ PInit /\ FrParked

\* Queue::next; the calls stop once the index has run MaxQLen + 2 places
PQ_Next ==
    /\ pq.index < MaxQLen + 2
    /\ LET r == PlayerQueueNext(pq)
       IN /\ pq' = r.q
          /\ pOut' = Call("next", 0, r.item, Panics(r.ok))
          /\ pLast' = IF r.item # NoSong THEN r.item ELSE pLast
    /\ UNCHANGED <<ctlVars, audioVars, qVars, frVars>>

\* Queue::peek
PQ_Peek ==
    /\ LET r == PlayerQueuePeek(pq)
       IN pOut' = Call("peek", 0, r.item, Panics(r.ok))
    /\ UNCHANGED <<pq, pLast>>
    /\ UNCHANGED <<ctlVars, audioVars, qVars, frVars>>

\* Queue::skip
PQ_Skip(n) ==
    /\ pq' = PlayerQueueSkip(pq, n)
    /\ pOut' = Call("skip", n, NoSong, "Ok")
    /\ pLast' = NoSong
    /\ UNCHANGED <<ctlVars, audioVars, qVars, frVars>>

\* Queue::jump
PQ_Jump(n) ==
    /\ pq' = PlayerQueueJump(pq, n)
    /\ pOut' = Call("jump", n, NoSong, "Ok")
    /\ pLast' = NoSong
    /\ UNCHANGED <<ctlVars, audioVars, qVars, frVars>>

\* an assignment to the public field repeat_mode
PQ_SetRepeatMode(mode) ==
    /\ mode # pq.repeat_mode
    /\ pq' = [pq EXCEPT !.repeat_mode = mode]
    /\ pOut' = Call("repeat_mode", 0, NoSong, "Ok")
    /\ UNCHANGED pLast
    /\ UNCHANGED <<ctlVars, audioVars, qVars, frVars>>

NextPlayerQueue ==
    \/ PQ_Next
    \/ PQ_Peek
    \/ \E n \in 0..MaxStep : PQ_Skip(n)
    \/ \E n \in 0..(MaxQLen + 1) : PQ_Jump(n)
    \/ \E mode \in RepeatModes : PQ_SetRepeatMode(mode)

SpecPlayerQueue == InitPlayerQueue /\ [][NextPlayerQueue]_vars

\* ------------------------------------------- 'song_loop with numbered frames
\* frames of the packet decoded after n frames, numbered in decode order
PacketFrameNumbers(n) == [i \in 1..PacketFrames |-> n + i]

\* producer.is_full()
IsFull(r) == Len(r) >= RingCap

\* a decode-push that goes on until the Ring is full
RoomToPushUntilFull(r) == RingCap - Len(r) >= 0

\* producer.vacant_len() > 2
RoomToPush(r) == RingCap - Len(r) > 2

\* producer.try_push(frame): ok = FALSE is Err(frame), on which the unwrap panics
TryPush(r, frame) ==
    IF Len(r) < RingCap THEN [ok |-> TRUE, ring |-> Append(r, frame)]
    ELSE [ok |-> FALSE, ring |-> r]

\* a spill that drops what is left of the packet
SpillDropsRest(deque, iter) == deque

\* sample_deque.extend(sample_iter)
Spill(deque, iter) == deque \o iter

\* the thread has a stream and is about to take a song
FrInit ==
    /\ frRing = <<>>
    /\ frDeque = <<>>
    /\ frIter = <<>>
    /\ frReader = 0
    /\ frDecoded = 0
    /\ frPushed = 0
    /\ frPlaying = TRUE
    /\ frPaused = FALSE
    /\ frClean = TRUE
    /\ frPc = "start"

InitFrames == CtlParked /\ AudioParked /\ QParked /\ PParked /\ FrInit

\* 'main_loop down to 'song_loop: a song is taken, the state set to Playing,
\* a new sample_deque made and playing set
F_StartSong ==
    /\ frPc \in {"start", "ended"}
    /\ frReader' = AudioSongPackets
    /\ frDecoded' = 0
    /\ frDeque' = <<>>
    /\ frIter' = <<>>
    /\ frPushed' = 0
    /\ frPlaying' = TRUE
    /\ frPaused' = FALSE
    /\ frClean' = TRUE
    /\ frPc' = "top"
    /\ UNCHANGED frRing
    /\ UNCHANGED <<ctlVars, audioVars, qVars, pVars>>

\* head of 'song_loop with no stream error and no message: the pause gate
F_Gate ==
    /\ frPc = "top"
    /\ frPlaying' = ~frPaused
    /\ frPc' = IF frPaused THEN "top" ELSE "flush"
    /\ UNCHANGED <<frRing, frDeque, frIter, frReader, frDecoded, frPushed, frPaused, frClean>>
    /\ UNCHANGED <<ctlVars, audioVars, qVars, pVars>>

\* head of 'song_loop, a stream error: the state is set to Paused and
\* stream_setup gives a new stream and the producer of a new, empty Ring
F_Rebuild ==
    /\ frPc = "top"
    /\ frRing' = <<>>
    /\ frPaused' = TRUE
    /\ frClean' = FALSE
    /\ UNCHANGED <<frDeque, frIter, frReader, frDecoded, frPushed, frPlaying, frPc>>
    /\ UNCHANGED <<ctlVars, audioVars, qVars, pVars>>

\* head of 'song_loop, PlayerMessage::Stop: break 'song_loop
F_Stop ==
    /\ frPc = "top"
    /\ frPc' = "start"
    /\ frClean' = FALSE
    /\ UNCHANGED <<frRing, frDeque, frIter, frReader, frDecoded, frPushed, frPlaying, frPaused>>
    /\ UNCHANGED <<ctlVars, audioVars, qVars, pVars>>

\* head of 'song_loop, PlayerMessage::Seek and reader.seek returns Ok: the
\* reader stands at the packet asked for and the decoder is reset; the song
\* is decoded at most MaxSeekRounds times over
F_SeekOk(packets_left) ==
    /\ frPc = "top"
    /\ frDecoded + packets_left * PacketFrames <= MaxSeekRounds * AudioSongPackets * PacketFrames
    /\ frReader' = packets_left
    /\ UNCHANGED <<frRing, frDeque, frIter, frDecoded, frPushed, frPlaying, frPaused, frClean, frPc>>
    /\ UNCHANGED <<ctlVars, audioVars, qVars, pVars>>

\* head of 'song_loop, PlayerMessage::Seek and reader.seek returns
\* Error::IoError: continue 'main_loop
F_SeekFail ==
    /\ frPc = "top"
    /\ frPc' = "start"
    /\ UNCHANGED <<frRing, frDeque, frIter, frReader, frDecoded, frPushed, frPlaying, frPaused, frClean>>
    /\ UNCHANGED <<ctlVars, audioVars, qVars, pVars>>

\* Player::pause on the facade
F_Pause ==
    /\ frPc \notin {"parked", "panic"}
    /\ ~frPaused
    /\ frPaused' = TRUE
    /\ UNCHANGED <<frRing, frDeque, frIter, frReader, frDecoded, frPushed, frPlaying, frClean, frPc>>
    /\ UNCHANGED <<ctlVars, audioVars, qVars, pVars>>

\* Player::resume on the facade
F_Resume ==
    /\ frPc \notin {"parked", "panic"}
    /\ frPaused
    /\ frPaused' = FALSE
    /\ UNCHANGED <<frRing, frDeque, frIter, frReader, frDecoded, frPushed, frPlaying, frClean, frPc>>
    /\ UNCHANGED <<ctlVars, audioVars, qVars, pVars>>

\* the flush: if !sample_deque.is_empty() and the test of while !producer.is_full()
F_FlushCheck ==
    /\ frPc = "flush"
    /\ frPc' = IF frDeque = <<>> \/ IsFull(frRing) THEN "decode" ELSE "flush_push"
    /\ UNCHANGED <<frRing, frDeque, frIter, frReader, frDecoded, frPushed, frPlaying, frPaused, frClean>>
    /\ UNCHANGED <<ctlVars, audioVars, qVars, pVars>>

\* the flush: pop_front and try_push(..).unwrap()
F_FlushPush ==
    /\ frPc = "flush_push"
    /\ LET r == TryPush(frRing, Head(frDeque))
       IN /\ frRing' = r.ring
          /\ frPc' = IF r.ok THEN "flush" ELSE "panic"
          /\ frPushed' = IF r.ok THEN frPushed + 1 ELSE frPushed
    /\ frDeque' = Tail(frDeque)
    /\ UNCHANGED <<frIter, frReader, frDecoded, frPlaying, frPaused, frClean>>
    /\ UNCHANGED <<ctlVars, audioVars, qVars, pVars>>

\* if sample_deque.is_empty(): the next packet is read and decoded, and
\* 'song_loop is left when the reader has none; then the sleep
F_Decode ==
    /\ frPc = "decode"
    /\ IF frDeque # <<>>
       THEN /\ frPc' = "top"
            /\ UNCHANGED <<frIter, frReader, frDecoded>>
       ELSE IF frReader = 0
       THEN /\ frPc' = "ended"
            /\ UNCHANGED <<frIter, frReader, frDecoded>>
       ELSE /\ frIter' = PacketFrameNumbers(frDecoded)
            /\ frDecoded' = frDecoded + PacketFrames
            /\ frReader' = frReader - 1
            /\ frPc' = "push_check"
    /\ UNCHANGED <<frRing, frDeque, frPushed, frPlaying, frPaused, frClean>>
    /\ UNCHANGED <<ctlVars, audioVars, qVars, pVars>>

\* the test of while producer.vacant_len() > 2 and sample_iter.next(); when
\* the loop is left, what is left of the packet goes to sample_deque
F_PushCheck ==
    /\ frPc = "push_check"
    /\ IF RoomToPush(frRing) /\ frIter # <<>>
       THEN /\ frPc' = "push"
            /\ UNCHANGED <<frDeque, frIter>>
       ELSE /\ frDeque' = Spill(frDeque, frIter)
            /\ frIter' = <<>>
            /\ frPc' = "top"
    /\ UNCHANGED <<frRing, frReader, frDecoded, frPushed, frPlaying, frPaused, frClean>>
    /\ UNCHANGED <<ctlVars, audioVars, qVars, pVars>>

\* decode-push: try_push(pair).unwrap()
F_Push ==
    /\ frPc = "push"
    /\ LET r == TryPush(frRing, Head(frIter))
       IN /\ frRing' = r.ring
          /\ frPc' = IF r.ok THEN "push_check" ELSE "panic"
          /\ frPushed' = IF r.ok THEN frPushed + 1 ELSE frPushed
    /\ frIter' = Tail(frIter)
    /\ UNCHANGED <<frDeque, frReader, frDecoded, frPlaying, frPaused, frClean>>
    /\ UNCHANGED <<ctlVars, audioVars, qVars, pVars>>

\* the callback pops k frames from the Ring
F_Pop(k) ==
    /\ frPc \notin {"parked", "panic"}
    /\ k <= Len(frRing)
    /\ frRing' = Drop(frRing, k)
    /\ UNCHANGED <<frDeque, frIter, frReader, frDecoded, frPushed, frPlaying, frPaused, frClean, frPc>>
    /\ UNCHANGED <<ctlVars, audioVars, qVars, pVars>>

NextFrames ==
    \/ F_StartSong
    \/ F_Gate
    \/ F_Rebuild
    \/ F_Stop
    \/ \E packets_left \in 0..AudioSongPackets : F_SeekOk(packets_left)
    \/ F_SeekFail
    \/ F_Pause
    \/ F_Resume
    \/ F_FlushCheck
    \/ F_FlushPush
    \/ F_Decode
    \/ F_PushCheck
    \/ F_Push
    \/ \E k \in 1..RingCap : F_Pop(k)

SpecFrames == InitFrames /\ [][NextFrames]_vars

Next ==
    \/ Facade
    \/ Decoder

Spec == Init /\ [][Next]_vars

\* Player::with_queue on the queue [long song, short song], in any repeat mode
InitPair == Init /\ queue.items = <<2, 1>>

\* the decoder is an OS thread that never blocks: it always takes its next step
FairSpec == InitPair /\ [][Next]_vars /\ WF_vars(Decoder)

NextDevice ==
    \/ Next
    \/ DeviceError

SpecDevice == Init /\ [][NextDevice]_vars

\* the UI drops the Receiver<PlayerUpdate> it got from run()
DropUpdateReceiver ==
    /\ fpc = "idle"
    /\ updRx
    /\ updRx' = FALSE
    /\ update' = NoUpdate
    /\ result' = "none"
    /\ UNCHANGED <<queue, state, sender, chan, timePlaying, alive, decoderVars, streamVars, fpc,
                   pauseReq, errPaused, stopDebt, rewindVars>>
    /\ UNCHANGED audioVars
    /\ UNCHANGED <<qVars, pVars, frVars>>

NextDrop ==
    \/ Next
    \/ DropUpdateReceiver

\* FairSpec with a UI that may drop the update receiver
FairSpecDrop == InitPair /\ [][NextDrop]_vars /\ WF_vars(Decoder)

TypeOK ==
    /\ state \in PlayerStates
    /\ queue.index \in 0..Len(queue.items)
    /\ Len(chan) <= MaxChan
    /\ alive \in 0..1
    /\ stopDebt \in 0..(MaxChan + 1)
    /\ staleStops \in 0..MaxChan

\* ------------------------------------------------------------------ claims
HasQuit(c) == \E i \in 1..Len(c) : c[i].kind = "Quit"

\* C1: at most one decoder thread is alive at any time: run() called while a
\* decoder is alive returns PlayerRunningError, spawns no thread and leaves the
\* state, the command sender and its channel unchanged.
C1_SingleDecoder ==
    [][/\ alive' <= 1
       /\ (Run /\ alive > 0) =>
              /\ result' = "PlayerRunning"
              /\ alive' = alive
              /\ dpc' = dpc
              /\ state' = state
              /\ sender' = sender
              /\ chan' = chan]_vars

\* run() has just been refused while the decoder plays a song
C1_Witness == result = "PlayerRunning" /\ alive = 1 /\ dpc = "decode"

\* C2: once the decoder thread has terminated, on Quit or on next_item
\* returning None, the shared PlayerState is Finished.
C2_FinishedAfterExit == dpc = "done" => state = "Finished"

\* C3: after pause() on a running decoder and no resume() since, the shared
\* state stays Paused, whatever the decoder does (song change included).
C3_PauseSticks == (pauseReq /\ DecoderAlive) => state = "Paused"

\* C4: Stops are neither lost nor merged while the decoder lives: every Stop
\* sent is either still in the channel, or has ended the song the decoder was
\* on and waits for its one next_item call, or has had that call; so the Stops
\* sent minus the advances made for a Stop are exactly the Stops outstanding.
C4_StopsConserved ==
    DecoderAlive =>
        /\ stopDebt = CountStops(chan) + (IF cause = "stop" THEN 1 ELSE 0)
        /\ cause = "stop" => dpc = "select"

\* a paused decoder has taken one Stop and ended its song; a second Stop is
\* still queued behind it
C4_Witness ==
    /\ dpc = "select"
    /\ cause = "stop"
    /\ ~playing
    /\ state = "Paused"
    /\ CountStops(chan) >= 1

\* C5: once Quit is on the channel of a live decoder, the decoder thread
\* terminates, playing or paused and whatever is queued before the Quit.
C5_QuitTerminates == (DecoderAlive /\ HasQuit(chan)) ~> ~DecoderAlive

\* the decoder is paused and the Quit is queued behind another command
C5_Witness ==
    /\ DecoderAlive
    /\ ~playing
    /\ dpc = "gate"
    /\ Len(chan) = MaxChan
    /\ chan[1].kind # "Quit"
    /\ chan[Len(chan)].kind = "Quit"

\* C6, as stated: NoCurrentSong without a current item, OutOfRange when d is
\* greater than its duration, nothing sent and no shared state changed in both
\* cases; otherwise exactly one Seek(d) is put on the command channel.
C6_SeekAlwaysSent ==
    [][\A d \in SeekInputs : SeekDuration(d) =>
          /\ <<queue, state, sender, timePlaying>>' = <<queue, state, sender, timePlaying>>
          /\ IF Current(queue) = NoSong
             THEN result' = "NoCurrentSong" /\ chan' = chan
             ELSE IF d > SongDuration(Current(queue))
                  THEN result' = "OutOfRange" /\ chan' = chan
                  ELSE /\ chan' = Append(chan, SeekMsg(d))
                       /\ result' \in {"Ok(true)", "Ok(false)"}]_vars

\* C6, amended: as above, but a valid seek puts exactly one Seek(d) on the
\* channel and returns Ok(true) only while a decoder thread is alive; with no
\* decoder ever started, or after it has terminated, nothing is sent and the
\* result is Ok(false).
C6_SeekDuration ==
    [][\A d \in SeekInputs : SeekDuration(d) =>
          /\ <<queue, state, sender, timePlaying>>' = <<queue, state, sender, timePlaying>>
          /\ IF Current(queue) = NoSong
             THEN result' = "NoCurrentSong" /\ chan' = chan
             ELSE IF d > SongDuration(Current(queue))
                  THEN result' = "OutOfRange" /\ chan' = chan
                  ELSE IF alive = 1
                       THEN chan' = Append(chan, SeekMsg(d)) /\ result' = "Ok(true)"
                       ELSE chan' = chan /\ result' = "Ok(false)"]_vars

\* a seek to exactly the end of the current song has just been sent
C6_Witness ==
    /\ result = "Ok(true)"
    /\ chan # <<>>
    /\ chan[Len(chan)] = SeekMsg(SongDuration(2))
    /\ Current(queue) = 2

\* C7: rewind() with time_playing > 3.0 s and a current item sends exactly one
\* Seek(0) and leaves the queue unchanged; in every other case it applies
\* Queue::rewind(1) and then sends exactly one Stop and no Seek.  ("Sends" is
\* read for a live decoder.)
C7_RewindDispatch ==
    [][/\ (fpc = "rewind_seek" /\ fpc' # fpc) =>
              /\ fpc' = "idle"
              /\ queue' = queue
              /\ CanSend => chan' = Append(chan, SeekMsg(0))
       /\ (fpc = "rewind_queue" /\ fpc' # fpc) =>
              /\ fpc' = "rewind_stop"
              /\ queue' = QueueRewind(queue, 1).q
              /\ chan' = chan
       /\ (fpc = "rewind_stop" /\ fpc' # fpc) =>
              /\ fpc' = "idle"
              /\ queue' = queue
              /\ CanSend => chan' = Append(chan, StopMsg)]_vars

\* C8, as stated: rewind() called while the decoder plays item i in mode All
\* with time_playing <= 3 s makes the next SongChange report item (i - 1) mod
\* len with index (i - 1) mod len, under every interleaving.
C8_NextChangeFromCall ==
    [][(D_Select /\ expOrig >= 0) =>
           update' = SongChange(expOrig, Get(queue.items, expOrig))]_vars

\* C8, amended: when rewind() repositions the queue (time_playing <= 3 s at its
\* test) while the decoder plays item i in mode All and the cursor is still on
\* item i, the next SongChange reports item (i - 1) mod len with index
\* (i - 1) mod len, under every interleaving of the decoder from then on.
C8_RewindToPrevious ==
    [][(D_Select /\ expIdx >= 0) =>
           update' = SongChange(expIdx, Get(queue.items, expIdx))]_vars

\* rewind() has wrapped from the first item to the last, its Stop has ended
\* the song and the decoder is about to report the next one
C8_Witness ==
    /\ Len(queue.items) >= 2
    /\ expIdx = Len(queue.items) - 1
    /\ dpc = "select"
    /\ cause = "stop"

\* C9: the callback learns of a song's new sample rate before it takes frames
\* of that song from the Ring: no frame of the rate the decoder has published
\* last is popped while that update is still waiting in the SampleRatePort and
\* the callback's resampler is set up for another rate.
C9_RateSeenBeforeFrames ==
    \A r \in cbPopped : ~(portFresh /\ r = portVal /\ r # cbRate)

\* C10: a callback that still needs samples gets some from the pass of its
\* while loop it is about to make, whatever the Ring holds, so that it returns
\* without waiting for the decoder: in bypass mode as in resampling mode.
C10_RefillDelivers ==
    (cbPc = "refill" /\ cbDeque < DataLen) =>
        RefillOutput(cbRate, devRate, Len(ring)) > 0

\* C11: on a stream error the decoder sets the state to Paused, rebuilds the
\* stream (the error is cleared) and emits DeviceDisconnect, in a step that
\* leaves the queue, the reader position and time_playing alone; and from then
\* on it pushes no packet until resume() is called.
C11_DeviceRecovery ==
    [][/\ (D_Poll /\ errPending) =>
              /\ state' = "Paused"
              /\ ~errPending'
              /\ update' = DeviceDisconnect
              /\ <<queue, curSong, pos, timePlaying>>' = <<queue, curSong, pos, timePlaying>>
       /\ update' = DeviceDisconnect => (D_Poll /\ errPending)
       /\ (D_Decode /\ errPaused) => pos' = pos]_vars

\* C12: when next_item returns None to the decoder, that step sends one
\* SongChange with song = None and ends the thread; a terminated decoder sends
\* no update, reads no packet and stays terminated.
C12_NoneEndsDecoder ==
    [][/\ (D_Select /\ NextItem(queue).item = NoSong) =>
              /\ update' = SongChange(queue.index, NoSong)
              /\ dpc' = "done"
              /\ alive' = 0
       /\ dpc = "done" =>
              /\ update' = NoUpdate
              /\ pos' = pos
              /\ dpc' = "done"]_vars

\* a queue in mode Off has been played to its end and None has just been reported
C12_Witness ==
    /\ dpc = "done"
    /\ update = SongChange(Len(queue.items) - 1, NoSong)
    /\ queue.index = Len(queue.items)
    /\ Len(queue.items) = MaxItems
    /\ pos > 0

C14_NotStartedUntilRun ==
    [][dpc = "none" =>
          /\ state = "NotStarted"
          /\ IF Run
             THEN result' = "Ok" /\ state' = "Paused" /\ alive' = 1
             ELSE state' = "NotStarted"]_vars

\* C15: in mode All the k-th next_item call on a fresh non-empty queue, with no
\* other call between, returns items[(k - 1) mod len], never None.
C15_AllCycles ==
    (qt.repeat_mode = "All" /\ qCalls >= 1 /\ Len(qt.items) >= 1) =>
        /\ qOut.op = "next_item"
        /\ qOut.item = qt.items[((qCalls - 1) % Len(qt.items)) + 1]
        /\ qOut.item # NoSong

\* the seventh call on a fresh queue of three items has returned the first item
C15_Witness ==
    /\ qt.repeat_mode = "All"
    /\ Len(qt.items) = 3
    /\ qCalls = 7
    /\ qOut.item = qt.items[1]

C17_SingleRepeats ==
    [][(Q_NextItem /\ qt.repeat_mode = "Single" /\ qSame # NoSong) =>
           qOut'.item = qSame]_vars

\* the same item has come back after edits that moved the cursor
C17_Witness ==
    /\ qt.repeat_mode = "Single"
    /\ qEdits
    /\ qOut.op = "next_item"
    /\ qOut.item = qSame
    /\ qSame # NoSong
    /\ qt.index = 2
    /\ qSame = 1

\* C18: in mode Single next_item leaves the index unchanged and returns the
\* item at the current index, None when the index is out of bounds.
C18_SingleKeepsIndex ==
    [][(Q_NextItem /\ qt.repeat_mode = "Single") =>
           /\ qt'.index = qt.index
           /\ qOut'.item = Get(qt.items, qt.index)]_vars

\* C19: in every repeat mode, the next_item call that follows a successful
\* jump(n) returns items[n], None when n = len.
C19_JumpThenNext ==
    [][(Q_NextItem /\ qOut.op = "jump" /\ qOut.res = "Ok") =>
           qOut'.item = Get(qt.items, qOut.arg)]_vars

\* C20: jump(n) with n > len returns the error and leaves the queue as it was;
\* jump(n) with n <= len succeeds, sets index = n and has_advanced = false and
\* changes nothing else.
C20_Jump ==
    [][\A n \in 0..(MaxQLen + 1) : Q_Jump(n) =>
           IF n > Len(qt.items)
           THEN qOut'.res = "Err" /\ qt' = qt
           ELSE /\ qOut'.res = "Ok"
                /\ qt' = [qt EXCEPT !.index = n, !.has_advanced = FALSE]]_vars

\* jump has put the cursor of a full queue on its last item
C20_Witness ==
    /\ qOut.op = "jump"
    /\ qOut.res = "Ok"
    /\ qOut.arg = MaxQLen - 1
    /\ qt.index = MaxQLen - 1
    /\ Len(qt.items) = MaxQLen
    /\ ~qt.has_advanced
    /\ qDry = "no"

\* C21: skip(n) never fails: it sets the index to index + n, plus one when
\* has_advanced, clamped to len in mode Off and taken modulo len in modes
\* Single and All (0 for an empty queue), and clears has_advanced; the
\* next_item call that follows returns the item at that index and leaves the
\* index there.
C21_Skip ==
    [][/\ \A n \in 0..MaxStep : Q_Skip(n) =>
              LET len == Len(qt.items)
                  to == qt.index + n + (IF qt.has_advanced THEN 1 ELSE 0)
                  target == IF len = 0 THEN 0
                            ELSE IF qt.repeat_mode = "Off" THEN Min(to, len)
                            ELSE to % len
              IN /\ qOut'.res = "Ok"
                 /\ qt' = [qt EXCEPT !.index = target, !.has_advanced = FALSE]
       /\ (Q_NextItem /\ qOut.op = "skip") =>
              /\ qOut'.item = Get(qt.items, qt.index)
              /\ qt'.index = qt.index]_vars

\* skip(MaxStep) has wrapped around the end of a full queue in mode All
C21_Witness ==
    /\ qOut.op = "skip"
    /\ qOut.arg = MaxStep
    /\ qOut.res = "Ok"
    /\ qt.repeat_mode = "All"
    /\ Len(qt.items) = MaxQLen
    /\ qt.index = 0
    /\ ~qt.has_advanced

\* C22: consecutive skips add up: from any queue state and in any repeat mode,
\* skip(a) followed at once by skip(b) leaves the queue in the state that
\* skip(a + b) would have left.
C22_SkipsAddUp ==
    [][\A a \in 0..MaxStep : Q_Skip(a) =>
           \A b \in 0..MaxStep : QueueSkip(qt', b) = QueueSkip(qt, a + b)]_vars

\* a skip has moved the cursor of a full queue in mode Off to index MaxStep,
\* short of the end, so that a second skip can still move it
C22_Witness ==
    /\ qOut.op = "skip"
    /\ qOut.arg = MaxStep - 1
    /\ qt.repeat_mode = "Off"
    /\ Len(qt.items) = MaxQLen
    /\ qt.index = MaxStep
    /\ ~qt.has_advanced
    /\ qCalls = -1

\* C23: in every repeat mode rewind(n) moves the cursor back n positions
\* circularly: the new index is index - n when n <= index and
\* len - (n - index) otherwise (0 for an empty queue), has_advanced is cleared,
\* and the next_item call that follows returns the item at that index.
C23_Rewind ==
    [][/\ \A n \in 0..MaxStep : Q_Rewind(n) =>
              LET len == Len(qt.items)
                  target == IF len = 0 THEN 0
                            ELSE IF n <= qt.index THEN qt.index - n
                            ELSE len - (n - qt.index)
              IN /\ qOut'.res = "Ok"
                 /\ qt' = [qt EXCEPT !.index = target, !.has_advanced = FALSE]
       /\ (Q_NextItem /\ qOut.op = "rewind") =>
              qOut'.item = Get(qt.items, qt.index)]_vars

\* C24: edits keep the current item: while index < len, current() returns the
\* same item after insert(i, x) for any i <= len and after remove(i) for any
\* i < len other than the index.
C24_EditsKeepCurrent ==
    [][qt.index < Len(qt.items) =>
           /\ \A i \in 0..MaxQLen, x \in QItems :
                  (Q_Insert(i, x) /\ i <= Len(qt.items)) =>
                      /\ qOut'.res = "Ok"
                      /\ Current(qt') = Current(qt)
           /\ \A i \in 0..MaxQLen :
                  (Q_Remove(i) /\ i < Len(qt.items) /\ i # qt.index) =>
                      /\ qOut'.res = "Ok"
                      /\ Current(qt') = Current(qt)]_vars

\* an item before the cursor has been removed and the cursor still points
\* into the queue
C24_Witness ==
    /\ qOut.op = "remove"
    /\ qOut.res = "Ok"
    /\ qOut.arg <= qt.index
    /\ qOut.item # NoSong
    /\ qt.index < Len(qt.items)
    /\ qt.has_advanced

\* C25: after the creation of the queue and after every successful jump,
\* skip, rewind and clear, has_advanced is false, and in every repeat mode the
\* next_item call that follows returns the item at the current index and
\* leaves the index unchanged.
C25_FirstCall ==
    [][/\ (Q_Clear \/ \E n \in 0..(MaxQLen + 1) : Q_Jump(n) \/ Q_Skip(n) \/ Q_Rewind(n)) =>
              (qOut'.res = "Ok" => ~qt'.has_advanced)
       /\ (Q_NextItem /\ qOut.op \in {"none", "jump", "skip", "rewind", "clear"}
                      /\ qOut.res \in {"none", "Ok"}) =>
              /\ ~qt.has_advanced
              /\ qOut'.item = Get(qt.items, qt.index)
              /\ qt'.index = qt.index]_vars

\* C26: with a non-empty queue the index equals len only in mode Off after
\* next_item has run past the last item, never in modes Single and All.
C26_EndOnlyInOff ==
    (Len(qt.items) > 0 /\ qt.index = Len(qt.items)) =>
        (qt.repeat_mode = "Off" /\ qt.has_advanced)

\* C26, as the code has it: the index never exceeds len, and next_item leaves
\* the index of a non-empty queue at len only in mode Off; jump, skip, remove
\* and a change of repeat_mode can leave it at len in every mode.
C26_IndexWithinLen ==
    [][/\ qt'.index <= Len(qt'.items)
       /\ (Q_NextItem /\ Len(qt.items) > 0 /\ qt'.index = Len(qt.items)) =>
              qt.repeat_mode = "Off"]_vars

\* the last item of a queue in mode All has been removed from under the
\* cursor, which now stands at len
C26_Witness ==
    /\ qOut.op = "remove"
    /\ qOut.res = "Ok"
    /\ qt.repeat_mode = "All"
    /\ Len(qt.items) > 0
    /\ qt.index = Len(qt.items)
    /\ qt.has_advanced

\* C27: a next_item call that returns None in mode Off leaves the index
\* unchanged.
C27_NoneKeepsIndex ==
    [][(Q_NextItem /\ qt.repeat_mode = "Off" /\ qOut'.item = NoSong) =>
           qt'.index = qt.index]_vars

\* position of an item in a queue that holds it once
IndexOf(items, x) == CHOOSE i \in 0..(Len(items) - 1) : items[i + 1] = x

\* C28: Queue of player.rs: an assignment to repeat_mode between two next()
\* calls does not move the cursor, and the first next() after it continues
\* from the item next() returned last under the new mode: Single returns that
\* item again, All returns the item after it (the first after the last), Off
\* returns the item after it and None after the last.
C28_ChangingMode ==
    [][/\ \A mode \in RepeatModes : PQ_SetRepeatMode(mode) =>
              /\ pq'.index = pq.index
              /\ pq'.has_advanced = pq.has_advanced
              /\ pq'.items = pq.items
       /\ (PQ_Next /\ pOut.op = "repeat_mode" /\ pLast # NoSong) =>
              LET p == IndexOf(pq.items, pLast)
                  len == Len(pq.items)
              IN /\ pOut'.res = "Ok"
                 /\ pOut'.item = CASE pq.repeat_mode = "Single" -> pLast
                                   [] pq.repeat_mode = "All" -> pq.items[((p + 1) % len) + 1]
                                   [] pq.repeat_mode = "Off" -> Get(pq.items, p + 1)]_vars

\* C29: Queue of player.rs: peek() leaves the queue as it is and returns what
\* next() would return, in every repeat mode and at every cursor position.
C29_PeekIsNext ==
    [][PQ_Peek =>
           /\ pq' = pq
           /\ pOut'.res = Panics(PlayerQueueNext(pq).ok)
           /\ pOut'.item = PlayerQueueNext(pq).item]_vars

\* C30: at every song start the decoder writes the song's sample rate to the
\* SampleRatePort, and remembers it, exactly when it differs from the rate it
\* remembers, and it does so before it pushes a frame of that song: the
\* frames the decoder pushes carry the rate the port holds, and nothing else
\* writes to the port.
C30_RatePublishedAtSongStart ==
    [][/\ (A_StartSong /\ aNext < Len(aSongs)) =>
              LET song_sample_rate == aSongs[aNext + 1]
              IN /\ ring' = ring
                 /\ IF song_sample_rate # aLastRate
                    THEN /\ portVal' = song_sample_rate
                         /\ portFresh'
                         /\ aLastRate' = song_sample_rate
                    ELSE UNCHANGED <<portVal, portFresh, aLastRate>>
       /\ (A_Flush \/ A_Decode) =>
              \A i \in 1..Len(ring') :
                  i > Len(ring) => (ring'[i] = portVal /\ ring'[i] = aLastRate)
       /\ (portVal' # portVal \/ (portFresh' /\ ~portFresh)) =>
              (A_StartSong /\ aNext < Len(aSongs) /\ aSongs[aNext + 1] # aLastRate)]_vars

\* a song whose rate differs from that of the song before it has started:
\* its rate is in the port and none of its frames has been pushed
C30_Witness ==
    /\ apc = "flush"
    /\ aNext >= 2
    /\ aSongs[aNext - 1] # aSongs[aNext]
    /\ aDeque = <<>>
    /\ aPackets = AudioSongPackets
    /\ portFresh
    /\ portVal = aSongs[aNext]
    /\ aLastRate = aSongs[aNext]
    /\ \A i \in 1..Len(ring) : ring[i] # aSongs[aNext]

\* C31: while a song plays with no Stop and no stream error, pauses and
\* resumes allowed, every frame the decoder decodes is pushed into the Ring
\* exactly once and in decode order, the frames spilled to sample_deque
\* included: each push succeeds and pushes the frame that follows the last
\* one pushed, and whenever 'song_loop is left every decoded frame has been
\* pushed and sample_deque is empty.
C31_FramesPushedOnceInOrder ==
    [][/\ ((F_FlushPush \/ F_Push) /\ frClean) =>
              /\ frPc' # "panic"
              /\ frPushed' = frPushed + 1
              /\ frRing'[Len(frRing')] = frPushed + 1
       /\ (frPc \notin {"start", "ended"} /\ frPc' \in {"start", "ended"} /\ frClean') =>
              /\ frDeque = <<>>
              /\ frPushed = frDecoded]_vars

\* C31, as the code has it: a Seek that fails with an I/O error leaves
\* 'song_loop like a Stop, with the frames in sample_deque not pushed. With
\* no Stop and no stream error each push succeeds and pushes the frame that
\* follows the last one pushed, and a song that ends by itself does so with
\* sample_deque empty and every decoded frame pushed.
C31_NoFrameLostBeforeEnd ==
    [][/\ ((F_FlushPush \/ F_Push) /\ frClean) =>
              /\ frPc' # "panic"
              /\ frPushed' = frPushed + 1
              /\ frRing'[Len(frRing')] = frPushed + 1
       /\ (F_Decode /\ frPc' = "ended") =>
              /\ frDeque = <<>>
              /\ frClean => frPushed = frDecoded]_vars

\* a song has ended by itself after a seek took the reader back, with all
\* its frames pushed, the last of them by the flush, which alone fills the
\* Ring to the brim
C31_Witness ==
    /\ frPc = "ended"
    /\ frClean
    /\ frDecoded > AudioSongPackets * PacketFrames
    /\ frPushed = frDecoded
    /\ Len(frRing) = RingCap
    /\ frRing[RingCap] = frDecoded

\* C39: every try_push the decoder performs on the Ring succeeds: the decoder
\* never pushes into a full Ring, whatever the callback pops in between and
\* across pauses, song changes and stream rebuilds.
C39_TryPushSucceeds ==
    /\ frPc # "panic"
    /\ Len(frRing) <= RingCap
    /\ frPc = "flush_push" => (frDeque # <<>> /\ ~IsFull(frRing))
    /\ frPc = "push" => (frIter # <<>> /\ ~IsFull(frRing))

\* after a stream rebuild the flush has filled the new Ring to the brim
C39_Witness ==
    /\ frPc = "flush"
    /\ ~frClean
    /\ frPushed > RingCap
    /\ Len(frRing) = RingCap
    /\ frRing[RingCap] = frPushed

\* C32: when the decoder takes Seek(d) and the reader seeks, time_playing is
\* set to the timestamp the reader went to and the same song goes on being
\* decoded from there; when the reader returns an I/O error the song is
\* abandoned, the next song is taken with one next_item call, and the
\* commands behind the Seek stay queued, in order, for that song; any other
\* error of the reader panics the thread.
C32_SeekApplied ==
    [][/\ D_Seek =>
              \/ /\ dpc' = "drain"
                 /\ curSong' = curSong
                 /\ queue' = queue
                 /\ pos' = Head(chan).dur \div PacketMs
                 /\ timePlaying' = pos' * PacketMs
                 /\ chan' = Tail(chan)
              \/ /\ dpc' = "select"
                 /\ cause' = "seek"
                 /\ queue' = queue
                 /\ chan' = Tail(chan)
              \/ dpc' = "panicked"
       /\ (D_Select /\ cause = "seek") =>
              /\ queue' = NextItem(queue).q
              /\ curSong' = NextItem(queue).item
              /\ curSong' # NoSong => chan' = chan]_vars

\* a Seek has failed with a command queued behind it, and the next song is
\* about to be taken
C32_Witness ==
    /\ dpc = "select"
    /\ cause = "seek"
    /\ chan # <<>>
    /\ queue.has_advanced
    /\ Get(queue.items, queue.index + 1) # NoSong

\* C33: in every state a Queue reaches through new, push, insert, remove,
\* clear, jump, skip, rewind, next_item and changes of repeat_mode, the index
\* lies between 0 and len.
C33_IndexInBounds ==
    /\ qt.index >= 0
    /\ qt.index <= Len(qt.items)

\* an insert at or before a cursor that stood at len has moved it to the new
\* len of a full queue
C33_Witness ==
    /\ qOut.op = "insert"
    /\ qOut.res = "Ok"
    /\ qOut.arg < Len(qt.items) - 1
    /\ Len(qt.items) = MaxQLen
    /\ qt.index = Len(qt.items)

\* C34: rewind(n) is total: from every reachable queue state and for every n
\* it completes, the jump it computes does not fail, and it leaves an index
\* between 0 and len.
C34_RewindTotal ==
    [][\A n \in 0..MaxStep : Q_Rewind(n) =>
           /\ qOut'.res = "Ok"
           /\ QueueRewind(qt, n).ok
           /\ qt'.index \in 0..Len(qt'.items)]_vars

\* C35: in mode Off with no reposition and no removal, an item pushed after
\* next_item has returned None is what the next next_item call returns, so
\* that every pushed item is returned once and in push order.
C35_PushedAfterNoneIsNext ==
    [][\A x \in QItems :
           (Q_Push(x) /\ qt.repeat_mode = "Off" /\ qDry \in {"end", "empty"}) =>
               NextItem(qt').item = x]_vars

\* C36: every SongChange update that carries a song reports the queue
\* position of that song at the time it is sent: queue.items[index] is the
\* song, after a natural advance as after Stop, rewind and jump.
C36_IndexOfReportedSong ==
    [][(D_Select /\ update'.song # NoSong) =>
           /\ update'.kind = "SongChange"
           /\ Get(queue'.items, update'.index) = update'.song]_vars

\* C38: every Seek(d) the decoder takes from the channel satisfies
\* d <= duration of the song being decoded at that moment, whatever Stop,
\* end of song or queue repositioning happened since seek_duration checked it.
C38_AppliedSeekInRange ==
    [][D_Seek => Head(chan).dur <= SongDuration(curSong)]_vars

\* C37: a Stop ends only the song that was playing when stop(), fast_forward()
\* or rewind() was called: when that song reaches its end of stream before the
\* decoder dequeues the Stop, the Stop does not end the song selected next.
C37_StopEndsOnlyItsSong ==
    [][D_Stop => staleStops = 0]_vars

====
